---- MODULE Spec2Model ----
(***************************************************************************)
(* Model of hypergrab's capture orchestration (src/src/main.rs): the       *)
(* MyApp state, its update() message handlers, the iced runtime that       *)
(* carries the Tasks they return (settle timer, file dialog, capture       *)
(* future) and the async_capture executor with the directory it writes to. *)
(*                                                                         *)
(* Encodings.  Option<T> is a sequence of length 0 (None) or 1 (Some).     *)
(* A String is a sequence of one-character strings, so that sanitising     *)
(* and formatting are computed character by character.  A PathBuf is a     *)
(* record [dir, file].  A Result is [ok, path, err].                       *)
(***************************************************************************)
EXTENDS Integers, Sequences, FiniteSets, Bags

VARIABLES
    window_id,          \* MyApp.window_id : Option<window::Id>
    excel_path,         \* MyApp.excel_path : Option<PathBuf>
    last_capture_path,  \* MyApp.last_capture_path : Option<PathBuf>
    items,              \* MyApp.items : Vec<TestItem>
    selected_index,     \* MyApp.selected_index : Option<usize> (0-based)
    status_message,     \* MyApp.status_message : String
    state,              \* MyApp.state : AppState
    current_view,       \* MyApp.current_view : View
    last_key,           \* the key of the message update() handled last, if a key press
    task,               \* the effects of the Task update() returned last
    dialogs,            \* file dialogs open (Task of OpenFile not yet completed)
    timers,             \* settle timers sleeping
    ticks,              \* TickCapture messages produced, not yet handled
    executors,          \* bag of async_capture futures in progress
    results,            \* bag of CaptureFinished results not yet handled
    fs,                 \* set of image paths that exist on disk
    minimized,          \* window::minimize(id, true) effects emitted so far
    restored,           \* window::minimize(id, false) effects emitted so far
    panicked            \* the process has panicked (index out of bounds)

app == <<window_id, excel_path, last_capture_path, items, selected_index,
         status_message, state, current_view>>

runtime == <<dialogs, timers, ticks, executors, results>>

vars == <<window_id, excel_path, last_capture_path, items, selected_index,
          status_message, state, current_view, last_key, task, dialogs, timers,
          ticks, executors, results, fs, minimized, restored, panicked>>

----------------------------------------------------------------------------
\* Bounds of the model.

\* Start requests accepted over a run (caps the effect counters).
MaxStarts == 2

\* File dialogs open at the same time.
MaxDialogs == 1

\* Length of the identifiers the allocator is tried on.
MaxCodeLen == 2

\* Highest collision suffix a directory is pre-filled with.
MaxSuffix == 2

\* Displays in a list the monitor choice is tried on.
MaxMonitors == 2

\* The settle interval in milliseconds.
SettleMs == 1500

----------------------------------------------------------------------------
\* Option, strings

None == <<>>

Some(x) == <<x>>

IsSome(o) == Len(o) = 1

Unwrap(o) == o[1]

----------------------------------------------------------------------------
\* The environment: window, keys, workbooks on disk, displays.

\* The id of the application's single window.
WindowIds == {1}

Keys == {"F12", "Other"}

Views == {"Main", "Info"}

Book1 == [dir |-> "A", file |-> <<"one.xlsx">>]

Book2 == [dir |-> "B", file |-> <<"two.xlsx">>]

\* A file the picker can return that is no readable workbook.
BadBook == [dir |-> "A", file |-> <<"bad.xlsx">>]

Pickable == {Book1, Book2, BadBook}

\* open_workbook(path) succeeds and worksheet_range_at(0) is Some(Ok(range)).
Readable(path) == path \in {Book1, Book2}

\* range.rows() of the first worksheet: a header row, then rows of cells.
SheetRows(path) ==
    IF path = Book1
    THEN << << <<"C">>, <<"D">> >>,
            << <<"T", "-", "1">>, <<"d">> >>,
            << <<" ">>, <<"d">> >>,
            << <<" ", "T">>, <<"d">> >> >>
    ELSE << << <<"C">>, <<"D">> >>,
            << <<"T", "/", "1", " ">>, <<"d">> >> >>

\* Lists of displays, each by its origin.
MonitorLists ==
    { <<>>,
      << [x |-> 0, y |-> 0] >>,
      << [x |-> 5, y |-> 5] >>,
      << [x |-> 1920, y |-> 0], [x |-> 0, y |-> 0] >> }

\* What Monitor::all() can return: an error, or the list of displays.
MonitorsAll ==
    {[ok |-> FALSE, monitors |-> <<>>]}
        \cup {[ok |-> TRUE, monitors |-> ms] : ms \in MonitorLists}

\* How image.save() can end.
SaveOutcomes == {"ok", "error", "partial"}

----------------------------------------------------------------------------
\* Pure helpers

Digits == <<"0", "1", "2", "3", "4", "5", "6", "7", "8", "9">>

Letters == {"T", "C", "D", "d", "A"}

Whitespace == {" "}

\* char::is_alphanumeric over the characters the workbooks use.
is_alphanumeric(c) == c \in Letters \/ (\E i \in 1..10 : Digits[i] = c)

RECURSIVE Decimal(_)
\* format!("{}", n) of a non-negative integer.
Decimal(n) ==
    IF n < 10 THEN <<Digits[n + 1]>>
    ELSE Decimal(n \div 10) \o <<Digits[(n % 10) + 1]>>

RECURSIVE trim_start(_)
trim_start(s) ==
    IF s # <<>> /\ Head(s) \in Whitespace THEN trim_start(Tail(s)) ELSE s

RECURSIVE trim_end(_)
trim_end(s) ==
    IF s # <<>> /\ s[Len(s)] \in Whitespace
    THEN trim_end(SubSeq(s, 1, Len(s) - 1))
    ELSE s

trim(s) == trim_end(trim_start(s))

\* The filter_map closure of load_excel: one row to Option<TestItem>.
ParseRow(r) ==
    IF Len(r) < 2 THEN None
    ELSE LET code == trim(r[1])
         IN  IF code = <<>> THEN None
             ELSE Some([code |-> code, description |-> r[2]])

RECURSIVE FilterMapRows(_)
FilterMapRows(rows) ==
    IF rows = <<>> THEN <<>>
    ELSE ParseRow(Head(rows)) \o FilterMapRows(Tail(rows))

\* rows().skip(1).filter_map(..).collect()
ParseItems(rows) ==
    FilterMapRows(IF rows = <<>> THEN <<>> ELSE Tail(rows))

\* A faulty sanitiser: the characters that are not alphanumeric are removed
\* instead of replaced.
safe_name_removing(code) == SelectSeq(code, is_alphanumeric)

\* item_code.replace(|c| !c.is_alphanumeric(), "_")
safe_name(code) ==
    [i \in 1..Len(code) |-> IF is_alphanumeric(code[i]) THEN code[i] ELSE "_"]

Png == <<".", "p", "n", "g">>

\* dir.join(name)
Join(dir, name) == [dir |-> dir, file |-> name]

\* excel_path.parent()
Parent(path) == path.dir

\* A faulty loop: `if` for `while`, the suffixed name is not checked again.
AllocateFromOnce(dir, safe, final_path, counter, files) ==
    IF final_path \notin files THEN final_path
    ELSE Join(dir, safe \o <<"_">> \o Decimal(counter) \o Png)

RECURSIVE AllocateFrom(_, _, _, _, _)
\* The while loop of async_capture, from final_path and counter.
AllocateFrom(dir, safe, final_path, counter, files) ==
    IF final_path \notin files THEN final_path
    ELSE AllocateFrom(dir, safe,
                      Join(dir, safe \o <<"_">> \o Decimal(counter) \o Png),
                      counter + 1, files)

\* The path async_capture settles on before it spawns the blocking part.
Allocate(excel, code, files) ==
    LET dir == Parent(excel)
        safe == safe_name(code)
    IN  AllocateFrom(dir, safe, Join(dir, safe \o Png), 1, files)

Ok(path) == [ok |-> TRUE, path |-> Some(path), err |-> None]

Err(e) == [ok |-> FALSE, path |-> None, err |-> Some(e)]

\* monitors.iter().find(origin).unwrap_or(monitors.first().ok_or(..)?)
\* A faulty choice: the first display of the list, wherever it is.
SelectMonitorFirst(monitors) ==
    IF monitors = <<>> THEN None ELSE Some(monitors[1])

SelectMonitor(monitors) ==
    IF monitors = <<>> THEN None
    ELSE LET hits == {i \in 1..Len(monitors) :
                         monitors[i].x = 0 /\ monitors[i].y = 0}
         IN  IF hits = {} THEN Some(monitors[1])
             ELSE Some(monitors[CHOOSE i \in hits : \A j \in hits : i <= j])

----------------------------------------------------------------------------
\* Effects a Task carries

Minimize(id, flag) == [kind |-> "minimize", id |-> id, flag |-> flag]

Sleep == [kind |-> "sleep", ms |-> SettleMs]

Capture(path, code) == [kind |-> "capture", excel |-> path, code |-> code]

PickFile == [kind |-> "pick_file"]

\* An async_capture future that has not been polled yet.
NewExecutor(path, code) ==
    [excel |-> path, code |-> code, pc |-> "allocate", final_path |-> None]

----------------------------------------------------------------------------
\* MyApp::new

Init ==
    /\ window_id = None
    /\ excel_path = None
    /\ last_capture_path = None
    /\ items = <<>>
    /\ selected_index = None
    /\ status_message = <<"System ready. Load an Excel file to begin.">>
    /\ state = "Idle"
    /\ current_view = "Main"
    /\ last_key = None
    /\ task = <<>>
    /\ dialogs = 0
    /\ timers = 0
    /\ ticks = 0
    /\ executors = EmptyBag
    /\ results = EmptyBag
    /\ fs = {}
    /\ minimized = 0
    /\ restored = 0
    /\ panicked = FALSE

----------------------------------------------------------------------------
\* MyApp::update, one operator per match arm.  An arm leaves `last_key` to
\* the event that sends the message; everything else it does not assign is
\* listed as UNCHANGED.

UpdateInit(id) ==
    /\ window_id' = IF window_id = None THEN Some(id) ELSE window_id
    /\ task' = <<>>
    /\ UNCHANGED <<excel_path, last_capture_path, items, selected_index,
                   status_message, state, current_view, runtime, fs,
                   minimized, restored, panicked>>

\* A faulty StartCapture arm: the settle timer is left out of the batch.
UpdateStartCaptureNoTimer ==
    IF IsSome(window_id)
    THEN /\ minimized < MaxStarts
         /\ state' = "Waiting"
         /\ status_message' = <<"Action: Minimizing and capturing...">>
         /\ task' = <<Minimize(Unwrap(window_id), TRUE)>>
         /\ minimized' = minimized + 1
         /\ UNCHANGED <<window_id, excel_path, last_capture_path, items,
                        selected_index, current_view, runtime, fs, restored,
                        panicked>>
    ELSE /\ status_message' = <<"Error: Window ID missing.">>
         /\ task' = <<>>
         /\ UNCHANGED <<window_id, excel_path, last_capture_path, items,
                        selected_index, state, current_view, runtime, fs,
                        minimized, restored, panicked>>

UpdateStartCapture ==
    IF IsSome(window_id)
    THEN /\ minimized < MaxStarts
         /\ state' = "Waiting"
         /\ status_message' = <<"Action: Minimizing and capturing...">>
         /\ task' = <<Minimize(Unwrap(window_id), TRUE), Sleep>>
         /\ minimized' = minimized + 1
         /\ timers' = timers + 1
         /\ UNCHANGED <<window_id, excel_path, last_capture_path, items,
                        selected_index, current_view, dialogs, ticks,
                        executors, results, fs, restored, panicked>>
    ELSE /\ status_message' = <<"Error: Window ID missing.">>
         /\ task' = <<>>
         /\ UNCHANGED <<window_id, excel_path, last_capture_path, items,
                        selected_index, state, current_view, runtime, fs,
                        minimized, restored, panicked>>

\* A faulty KeyPressed arm: F12 starts a capture whatever the state.
UpdateKeyPressedUnguarded(key) ==
    IF key = "F12"
    THEN UpdateStartCapture
    ELSE /\ task' = <<>>
         /\ UNCHANGED <<app, runtime, fs, minimized, restored, panicked>>

UpdateKeyPressed(key) ==
    IF key = "F12" /\ IsSome(selected_index) /\ state = "Idle"
    THEN UpdateStartCapture
    ELSE /\ task' = <<>>
         /\ UNCHANGED <<app, runtime, fs, minimized, restored,
                        panicked>>

\* The TickCapture arm; the runtime takes the message off `ticks`.
\* A faulty TickCapture arm: a tick that finds nothing to capture puts the
\* state back to Idle.
UpdateTickCaptureResets ==
    /\ IF IsSome(selected_index) /\ IsSome(excel_path)
       THEN IF Unwrap(selected_index) < Len(items)
            THEN LET code == items[Unwrap(selected_index) + 1].code
                     path == Unwrap(excel_path)
                 IN  /\ task' = <<Capture(path, code)>>
                     /\ executors' =
                            executors (+) SetToBag({NewExecutor(path, code)})
                     /\ UNCHANGED <<panicked, state>>
            ELSE /\ task' = <<>>
                 /\ panicked' = TRUE
                 /\ UNCHANGED <<executors, state>>
       ELSE /\ task' = <<>>
            /\ state' = "Idle"
            /\ UNCHANGED <<executors, panicked>>
    /\ UNCHANGED <<window_id, excel_path, last_capture_path, items,
                   selected_index, status_message, current_view, dialogs,
                   timers, results, fs, minimized, restored>>

UpdateTickCapture ==
    /\ IF IsSome(selected_index) /\ IsSome(excel_path)
       THEN IF Unwrap(selected_index) < Len(items)
            THEN LET code == items[Unwrap(selected_index) + 1].code
                     path == Unwrap(excel_path)
                 IN  /\ task' = <<Capture(path, code)>>
                     /\ executors' =
                            executors (+) SetToBag({NewExecutor(path, code)})
                     /\ UNCHANGED panicked
            ELSE \* self.items[idx]: index out of bounds
                 /\ task' = <<>>
                 /\ panicked' = TRUE
                 /\ UNCHANGED executors
       ELSE /\ task' = <<>>
            /\ UNCHANGED <<executors, panicked>>
    /\ UNCHANGED <<app, dialogs, timers, results, fs, minimized, restored>>

\* format!("{:?}", path.file_name().unwrap())
\* A faulty status line: file_stem() for file_name(), the extension is lost.
DebugFileStem(path) ==
    <<"\"">> \o SubSeq(path.file, 1, Len(path.file) - 4) \o <<"\"">>

DebugFileName(path) ==
    <<"\"">> \o path.file \o <<"\"">>

\* A faulty CaptureFinished arm: only a success returns the state to Idle.
UpdateCaptureFinishedIdleOnOk(result) ==
    /\ IF result.ok
       THEN /\ state' = "Idle"
            /\ status_message' =
                   <<"File saved: ">> \o DebugFileName(Unwrap(result.path))
            /\ last_capture_path' = result.path
       ELSE /\ status_message' = <<"Error: ", Unwrap(result.err)>>
            /\ UNCHANGED <<state, last_capture_path>>
    /\ IF IsSome(window_id)
       THEN /\ task' = <<Minimize(Unwrap(window_id), FALSE)>>
            /\ restored' = restored + 1
       ELSE /\ task' = <<>>
            /\ UNCHANGED restored
    /\ UNCHANGED <<window_id, excel_path, items, selected_index,
                   current_view, dialogs, timers, ticks, executors, fs,
                   minimized, panicked>>

\* The CaptureFinished arm; the runtime takes the message off `results`.
UpdateCaptureFinished(result) ==
    /\ state' = "Idle"
    /\ IF result.ok
       THEN /\ status_message' =
                   <<"File saved: ">> \o DebugFileName(Unwrap(result.path))
            /\ last_capture_path' = result.path
       ELSE /\ status_message' = <<"Error: ", Unwrap(result.err)>>
            /\ UNCHANGED last_capture_path
    /\ IF IsSome(window_id)
       THEN /\ task' = <<Minimize(Unwrap(window_id), FALSE)>>
            /\ restored' = restored + 1
       ELSE /\ task' = <<>>
            /\ UNCHANGED restored
    /\ UNCHANGED <<window_id, excel_path, items, selected_index,
                   current_view, dialogs, timers, ticks, executors, fs,
                   minimized, panicked>>

\* Spawns the platform's file manager on the last capture; no state of
\* the application changes.
UpdateOpenLastCapture ==
    /\ task' = <<>>
    /\ UNCHANGED <<app, runtime, fs, minimized, restored, panicked>>

UpdateOpenFile ==
    /\ dialogs < MaxDialogs
    /\ dialogs' = dialogs + 1
    /\ task' = <<PickFile>>
    /\ UNCHANGED <<app, timers, ticks, executors, results, fs, minimized,
                   restored, panicked>>

load_excel(path) ==
    IF Readable(path)
    THEN /\ items' = ParseItems(SheetRows(path))
         /\ excel_path' = Some(path)
         /\ status_message' =
                <<"Loaded ">> \o Decimal(Len(items')) \o <<" records.">>
    ELSE UNCHANGED <<items, excel_path, status_message>>

\* FileSelected(Some(path)) loads; FileSelected(None) falls to `_ => {}`.
UpdateFileSelected(picked) ==
    /\ IF IsSome(picked)
       THEN load_excel(Unwrap(picked))
       ELSE UNCHANGED <<items, excel_path, status_message>>
    /\ task' = <<>>
    /\ UNCHANGED <<window_id, last_capture_path, selected_index, state,
                   current_view, timers, ticks, executors, results, fs,
                   minimized, restored, panicked>>

UpdateSelectItem(index) ==
    /\ selected_index' = Some(index)
    /\ task' = <<>>
    /\ UNCHANGED <<window_id, excel_path, last_capture_path, items,
                   status_message, state, current_view, runtime, fs,
                   minimized, restored, panicked>>

\* Spawns the platform's file manager on the workbook's directory.
UpdateOpenFolder ==
    /\ task' = <<>>
    /\ UNCHANGED <<app, runtime, fs, minimized, restored, panicked>>

UpdateSetView(v) ==
    /\ current_view' = v
    /\ task' = <<>>
    /\ UNCHANGED <<window_id, excel_path, last_capture_path, items,
                   selected_index, status_message, state, runtime, fs,
                   minimized, restored, panicked>>

----------------------------------------------------------------------------
\* Events of the user interface: the subscription and the widgets view()
\* builds.  Each hands its message to update().

\* The operator can press keys and widgets once the window is shown, and
\* by then the subscription has seen the window's first events.
Shown == ~panicked /\ IsSome(window_id)

\* subscription: any event that is no key press yields Init(id).
WindowEvent(id) ==
    /\ ~panicked
    /\ last_key' = None
    /\ UpdateInit(id)

\* subscription: a key press yields KeyPressed(key).
PressKey(key) ==
    /\ Shown
    /\ last_key' = Some(key)
    /\ UpdateKeyPressed(key)

\* The DASHBOARD and SYSTEM INFO buttons of the navigation row.
ClickNav(v) ==
    /\ Shown
    /\ last_key' = None
    /\ UpdateSetView(v)

\* A row of the item list, present in the Main view for each index.
ClickItem(i) ==
    /\ Shown
    /\ current_view = "Main"
    /\ i < Len(items)
    /\ last_key' = None
    /\ UpdateSelectItem(i)

ClickImportExcel ==
    /\ Shown
    /\ current_view = "Main"
    /\ last_key' = None
    /\ UpdateOpenFile

ClickOpenDirectory ==
    /\ Shown
    /\ current_view = "Main"
    /\ last_key' = None
    /\ UpdateOpenFolder

\* The thumbnail button, present once a capture has been saved.
ClickLastCapture ==
    /\ Shown
    /\ current_view = "Main"
    /\ IsSome(last_capture_path)
    /\ last_key' = None
    /\ UpdateOpenLastCapture

\* The EXECUTE CAPTURE (F12) button.
ClickExecuteCapture ==
    /\ Shown
    /\ current_view = "Main"
    /\ last_key' = None
    /\ UpdateStartCapture

----------------------------------------------------------------------------
\* The runtime: completion of the Tasks update() returned.

\* The file dialog closes with a choice or without one.
DialogCloses(picked) ==
    /\ ~panicked
    /\ dialogs > 0
    /\ dialogs' = dialogs - 1
    /\ last_key' = None
    /\ UpdateFileSelected(picked)

\* tokio::time::sleep completes; its Task maps the result to TickCapture.
TimerFires ==
    /\ ~panicked
    /\ timers > 0
    /\ timers' = timers - 1
    /\ ticks' = ticks + 1
    /\ UNCHANGED <<app, last_key, task, dialogs, executors, results, fs,
                   minimized, restored, panicked>>

DeliverTickCapture ==
    /\ ~panicked
    /\ ticks > 0
    /\ ticks' = ticks - 1
    /\ last_key' = None
    /\ UpdateTickCapture

DeliverCaptureFinished(result) ==
    /\ ~panicked
    /\ BagIn(result, results)
    /\ results' = results (-) SetToBag({result})
    /\ last_key' = None
    /\ UpdateCaptureFinished(result)

----------------------------------------------------------------------------
\* async_capture: the first poll, then the blocking closure.

Step(e, f) == (executors (-) SetToBag({e})) (+) SetToBag({f})

\* The future resolves: its output becomes an undelivered CaptureFinished.
Finish(e, result) ==
    /\ executors' = executors (-) SetToBag({e})
    /\ results' = results (+) SetToBag({result})

exec_frame == <<app, last_key, task, dialogs, timers, ticks, minimized, restored, panicked>>

\* First poll: dir, safe_name and the exists() loop.
ExecAllocate(e) ==
    /\ ~panicked
    /\ BagIn(e, executors)
    /\ e.pc = "allocate"
    /\ executors' =
           Step(e, [e EXCEPT !.final_path = Some(Allocate(e.excel, e.code, fs)),
                             !.pc = "blocking"])
    /\ UNCHANGED <<exec_frame, results, fs>>

\* The closure handed to spawn_blocking, as a function of what the platform
\* answers: `all` is Monitor::all(), `grab_ok` whether capture_image()
\* succeeds, `save` how image.save() ends ("ok", "error" before the file
\* exists, or "partial": an error after the file was created).
CaptureClosure(path_for_thread, all, grab_ok, save) ==
    IF ~all.ok
    THEN [result |-> Err("EnumerationError"), written |-> FALSE]
    ELSE IF SelectMonitor(all.monitors) = None
    THEN [result |-> Err("No display found."), written |-> FALSE]
    ELSE IF ~grab_ok
    THEN [result |-> Err("GrabError"), written |-> FALSE]
    ELSE IF save = "ok"
    THEN [result |-> Ok(path_for_thread), written |-> TRUE]
    ELSE [result |-> Err("EncodeError"), written |-> save = "partial"]

\* Every way the closure can end for one path.
ClosureOutcomes(path_for_thread) ==
    {CaptureClosure(path_for_thread, all, grab_ok, save) :
        all \in MonitorsAll, grab_ok \in BOOLEAN, save \in SaveOutcomes}

\* The blocking part runs on a pool thread and touches nothing shared but
\* the directory, so it is one step.
ExecBlocking(e) ==
    /\ ~panicked
    /\ BagIn(e, executors)
    /\ e.pc = "blocking"
    /\ \E out \in ClosureOutcomes(Unwrap(e.final_path)) :
           /\ fs' = IF out.written THEN fs \cup {Unwrap(e.final_path)} ELSE fs
           /\ Finish(e, out.result)
    /\ UNCHANGED exec_frame

----------------------------------------------------------------------------

Next ==
    \/ \E id \in WindowIds : WindowEvent(id)
    \/ \E key \in Keys : PressKey(key)
    \/ \E v \in Views : ClickNav(v)
    \/ \E i \in 0..(Len(items) - 1) : ClickItem(i)
    \/ ClickImportExcel
    \/ ClickOpenDirectory
    \/ ClickLastCapture
    \/ ClickExecuteCapture
    \/ \E picked \in {None} \cup {Some(f) : f \in Pickable} : DialogCloses(picked)
    \/ TimerFires
    \/ DeliverTickCapture
    \/ \E r \in BagToSet(results) : DeliverCaptureFinished(r)
    \/ \E e \in BagToSet(executors) : ExecAllocate(e)
    \/ \E e \in BagToSet(executors) : ExecBlocking(e)

Spec == Init /\ [][Next]_vars

\* The completions the runtime owes the application: timers fire, futures
\* are polled to their end, results are delivered.
Scheduled ==
    \/ TimerFires
    \/ DeliverTickCapture
    \/ \E r \in BagToSet(results) : DeliverCaptureFinished(r)
    \/ \E e \in BagToSet(executors) : ExecAllocate(e)
    \/ \E e \in BagToSet(executors) : ExecBlocking(e)

FairSpec == Spec /\ WF_vars(Scheduled)

----------------------------------------------------------------------------
\* Vocabulary of the properties

\* A capture request is in flight: its settle timer is pending, or its
\* TickCapture is undelivered, or its executor runs, or its result is
\* undelivered.
CaptureInFlight ==
    \/ timers > 0
    \/ ticks > 0
    \/ BagCardinality(executors) > 0
    \/ BagCardinality(results) > 0

\* A start request: the EXECUTE CAPTURE button or the F12 key.
StartRequest == ClickExecuteCapture \/ PressKey("F12")

\* What a TickCapture handled now would hand to the executor.
CaptureTarget ==
    IF /\ IsSome(selected_index)
       /\ IsSome(excel_path)
       /\ Unwrap(selected_index) < Len(items)
    THEN Some([identifier |-> items[Unwrap(selected_index) + 1].code,
               directory |-> Parent(Unwrap(excel_path))])
    ELSE None

----------------------------------------------------------------------------
\* C1: a start request handled while the state is Waiting is a no-op: state
\* and status text are unchanged, and neither a window-minimize nor a timer
\* effect is emitted.
C1_StartWhileWaitingIsNoOp ==
    [][(state = "Waiting" /\ StartRequest)
          => /\ UNCHANGED <<state, status_message, minimized, timers>>
             /\ task' = <<>>]_vars

\* C2: a start request handled while no item is selected is a no-op: the
\* state stays Idle, the status text is unchanged, and neither a
\* window-minimize nor a timer effect is emitted.
C2_StartWithoutSelectionIsNoOp ==
    [][(selected_index = None /\ state = "Idle" /\ StartRequest)
          => /\ state' = "Idle"
             /\ UNCHANGED <<status_message, minimized, timers>>
             /\ task' = <<>>]_vars

\* C3: the state is Waiting exactly when a capture request is in flight.
C3_WaitingIffInFlight == (state = "Waiting") <=> CaptureInFlight

\* C4: at most one capture is in flight: never two pending settle timers,
\* never two executor invocations running or awaiting delivery.
C4_AtMostOneInFlight ==
    /\ timers <= 1
    /\ BagCardinality(executors) + BagCardinality(results) <= 1

\* C5: whenever the state becomes Waiting it eventually returns to Idle,
\* given that timers fire, executors terminate and messages are delivered.
C5_WaitingLeadsToIdle == (state = "Waiting") ~> (state = "Idle")

\* C6: handling CaptureFinished sets the state to Idle for every outcome:
\* each step that takes a result off the undelivered ones ends in Idle.
C6_CaptureFinishedSetsIdle ==
    [][BagCardinality(results') < BagCardinality(results)
          => state' = "Idle"]_vars

\* C6: a failed capture has been delivered and the state is Idle.
C6_Witness ==
    /\ state = "Idle"
    /\ restored = 1
    /\ task = <<Minimize(1, FALSE)>>
    /\ status_message = <<"Error: ", "GrabError">>

\* C7: the window is restored exactly once per start: no restore without a
\* start, and once nothing is in flight any more every minimize that a start
\* emitted has been answered by one restore.
C7_RestoreOncePerStart ==
    /\ restored <= minimized
    /\ ~CaptureInFlight => restored = minimized

\* C8: F12 pressed while Waiting or with no item selected, and any other
\* key, changes nothing and emits no effect.
C8_KeyIsNoOp ==
    [][\A key \in Keys :
          (/\ PressKey(key)
           /\ key # "F12" \/ state = "Waiting" \/ selected_index = None)
             => /\ UNCHANGED <<app, runtime, fs, minimized, restored>>
                /\ task' = <<>>]_vars

\* C8: F12 was pressed while the state was Waiting and nothing came of it.
C8_Witness ==
    /\ last_key = Some("F12")
    /\ task = <<>>
    /\ state = "Waiting"
    /\ IsSome(selected_index)

\* C9: a valid start (item selected, Idle, window id known) sets Waiting and
\* the in-progress text, emits one window-minimize and one settle timer and
\* does not invoke the executor; a settle timer ends by producing one
\* TickCapture.
C9_ValidStart ==
    [][/\ (/\ StartRequest
           /\ IsSome(selected_index)
           /\ state = "Idle"
           /\ IsSome(window_id))
          => /\ state' = "Waiting"
             /\ status_message' = <<"Action: Minimizing and capturing...">>
             /\ task' = <<[kind |-> "minimize", id |-> Unwrap(window_id),
                           flag |-> TRUE],
                          [kind |-> "sleep", ms |-> 1500]>>
             /\ minimized' = minimized + 1
             /\ timers' = timers + 1
             /\ UNCHANGED <<ticks, executors, results, fs, restored>>
       /\ timers' < timers
          => /\ timers' = timers - 1
             /\ ticks' = ticks + 1]_vars

\* C9: the first start, made from Idle with an item selected, has just been
\* handled.
C9_Witness ==
    /\ state = "Waiting"
    /\ IsSome(selected_index)
    /\ minimized = 1
    /\ timers = 1
    /\ task = <<Minimize(1, TRUE), Sleep>>

\* C10: the executor is invoked with the identifier and directory that were
\* selected and loaded when the start was accepted: right after an accepted
\* start, and until its delay has elapsed, no message changes what will be
\* captured.
C10_RequestFixedAtStart ==
    [][(/\ task = <<Minimize(1, TRUE), Sleep>>
        /\ timers + ticks > 0
        /\ IsSome(CaptureTarget))
          => CaptureTarget' = CaptureTarget]_vars


----------------------------------------------------------------------------
\* The Filename Allocator on its own: async_capture's first poll, run on
\* every identifier up to MaxCodeLen characters against every directory
\* that holds some of the candidates up to suffix MaxSuffix.  Two futures
\* with the same arguments are polled, so the directory is queried twice.

CodeAlphabet == {"T", "1", "-", "/"}

RECURSIVE CodesOfLen(_)
CodesOfLen(n) ==
    IF n = 0 THEN {<<>>}
    ELSE {Append(c, ch) : c \in CodesOfLen(n - 1), ch \in CodeAlphabet}

\* The identifiers tried, with the documented example "TC/01:A".
CodeInputs ==
    UNION {CodesOfLen(n) : n \in 1..MaxCodeLen}
        \cup {<<"T", "C", "/", "0", "1", ":", "A">>}

\* The n-th name of the sequence <stem>.png, <stem>_1.png, <stem>_2.png, ...
CandidateName(stem, n) ==
    IF n = 0 THEN stem \o <<".", "p", "n", "g">>
    ELSE stem \o <<"_">> \o Decimal(n) \o <<".", "p", "n", "g">>

\* Directory contents: any of the candidates of `code` up to MaxSuffix.
DirectoryInputs(excel, code) ==
    SUBSET {[dir |-> Parent(excel), file |-> CandidateName(safe_name(code), n)] :
               n \in 0..MaxSuffix}

AllocatorInit ==
    /\ window_id = Some(1)
    /\ excel_path = Some(Book1)
    /\ last_capture_path = None
    /\ items = ParseItems(SheetRows(Book1))
    /\ selected_index = None
    /\ status_message = <<"System ready. Load an Excel file to begin.">>
    /\ state = "Waiting"
    /\ current_view = "Main"
    /\ last_key = None
    /\ task = <<>>
    /\ dialogs = 0
    /\ timers = 0
    /\ ticks = 0
    /\ \E code \in CodeInputs :
           /\ executors = [e \in {NewExecutor(Book1, code)} |-> 2]
           /\ fs \in DirectoryInputs(Book1, code)
    /\ results = EmptyBag
    /\ minimized = 0
    /\ restored = 0
    /\ panicked = FALSE

AllocatorNext == \E e \in BagToSet(executors) : ExecAllocate(e)

AllocatorSpec == AllocatorInit /\ [][AllocatorNext]_vars

\* The futures that have settled on a path.
Allocated == {e \in BagToSet(executors) : e.pc = "blocking"}

\* C11: the allocator returns the first name of the sequence <sanitized>.png,
\* <sanitized>_1.png, <sanitized>_2.png, ... that does not exist in the
\* directory; every earlier candidate exists; a second call on the unchanged
\* directory returns the same path.
C11_FirstFreeCandidate ==
    /\ \A e \in Allocated :
           \E n \in 0..Cardinality(fs) :
               /\ Unwrap(e.final_path) =
                      [dir |-> Parent(e.excel),
                       file |-> CandidateName(safe_name(e.code), n)]
               /\ Unwrap(e.final_path) \notin fs
               /\ \A m \in 0..(n - 1) :
                      [dir |-> Parent(e.excel),
                       file |-> CandidateName(safe_name(e.code), m)] \in fs
    /\ \A e1 \in Allocated, e2 \in Allocated :
           (e1.excel = e2.excel /\ e1.code = e2.code)
               => e1.final_path = e2.final_path

\* C11: T.png and T_1.png exist and both calls have returned T_2.png.
C11_Witness ==
    /\ [dir |-> "A", file |-> <<"T", ".", "p", "n", "g">>] \in fs
    /\ [dir |-> "A", file |-> <<"T", "_", "1", ".", "p", "n", "g">>] \in fs
    /\ \E e \in Allocated :
           /\ CopiesIn(e, executors) = 2
           /\ e.code = <<"T">>
           /\ Unwrap(e.final_path).file = <<"T", "_", "2", ".", "p", "n", "g">>

\* The part of an allocated file name that stands for the identifier, and
\* what follows it.
StemOf(e) == SubSeq(Unwrap(e.final_path).file, 1, Len(e.code))

AfterStem(e) ==
    SubSeq(Unwrap(e.final_path).file, Len(e.code) + 1,
           Len(Unwrap(e.final_path).file))

\* C12: the sanitized stem has as many characters as the identifier, keeps
\* each alphanumeric character in place and has '_' exactly where the
\* identifier has another character.
C12_SanitizedStem ==
    \A e \in Allocated :
        /\ Len(Unwrap(e.final_path).file) >= Len(e.code) + 4
        /\ \/ AfterStem(e) = <<".", "p", "n", "g">>
           \/ /\ Head(AfterStem(e)) = "_"
              /\ \E d \in 1..10 : AfterStem(e)[2] = Digits[d]
        /\ \A i \in 1..Len(e.code) :
               /\ is_alphanumeric(e.code[i]) => StemOf(e)[i] = e.code[i]
               /\ ~is_alphanumeric(e.code[i]) => StemOf(e)[i] = "_"

\* C12: "TC/01:A" has been allocated as TC_01_A.png.
C12_Witness ==
    \E e \in Allocated :
        /\ e.code = <<"T", "C", "/", "0", "1", ":", "A">>
        /\ Unwrap(e.final_path).file =
               <<"T", "C", "_", "0", "1", "_", "A", ".", "p", "n", "g">>

----------------------------------------------------------------------------
\* The Capture Executor statement by statement: one future of async_capture
\* run alone, its blocking closure split at every `?`.  Each executor keeps
\* the list of the statements it has performed.

Origins == {[x |-> 0, y |-> 0], [x |-> 5, y |-> 5], [x |-> 1920, y |-> 0]}

\* Display lists up to MaxMonitors long; `id` is the display's place in the
\* list (mirrored displays share an origin).
MonitorInputs ==
    UNION {{[i \in 1..n |-> [id |-> i, x |-> o[i].x, y |-> o[i].y]] :
               o \in [1..n -> Origins]} : n \in 0..MaxMonitors}

ExecutorInputs == {<<Book1, <<"T">>>>, <<Book2, <<"T", "/", "1">>>>}

ExecutorInit ==
    /\ window_id = Some(1)
    /\ last_capture_path = None
    /\ selected_index = Some(0)
    /\ status_message = <<"Action: Minimizing and capturing...">>
    /\ state = "Waiting"
    /\ current_view = "Main"
    /\ last_key = None
    /\ task = <<>>
    /\ dialogs = 0
    /\ timers = 0
    /\ ticks = 0
    /\ \E in \in ExecutorInputs :
           /\ excel_path = Some(in[1])
           /\ items = ParseItems(SheetRows(in[1]))
           /\ executors =
                  SetToBag({[excel |-> in[1], code |-> in[2], pc |-> "allocate",
                             final_path |-> None, monitors |-> None,
                             monitor |-> None, steps |-> <<>>]})
           /\ fs \in DirectoryInputs(in[1], in[2])
    /\ results = EmptyBag
    /\ minimized = 1
    /\ restored = 0
    /\ panicked = FALSE

\* The closure returns: the future resolves with `result`.
Return(e, f, result) ==
    /\ executors' = Step(e, [f EXCEPT !.pc = "done"])
    /\ results' = results (+) SetToBag({result})

\* let dir ..; let safe_name ..; while final_path.exists() { .. }
StepAllocate(e) ==
    /\ BagIn(e, executors)
    /\ e.pc = "allocate"
    /\ executors' =
           Step(e, [e EXCEPT !.final_path = Some(Allocate(e.excel, e.code, fs)),
                             !.steps = Append(@, "allocate"),
                             !.pc = "enumerate"])
    /\ UNCHANGED <<exec_frame, results, fs>>

\* let monitors = Monitor::all().map_err(..)?;
StepEnumerate(e) ==
    /\ BagIn(e, executors)
    /\ e.pc = "enumerate"
    /\ LET f == [e EXCEPT !.steps = Append(@, "enumerate")]
       IN  \/ Return(e, f, Err("EnumerationError"))
           \/ /\ \E ms \in MonitorInputs :
                     executors' = Step(e, [f EXCEPT !.monitors = Some(ms),
                                                    !.pc = "select"])
              /\ UNCHANGED results
    /\ UNCHANGED <<exec_frame, fs>>

\* let monitor = monitors.iter().find(..).unwrap_or(monitors.first().ok_or(..)?);
StepSelect(e) ==
    /\ BagIn(e, executors)
    /\ e.pc = "select"
    /\ LET f == [e EXCEPT !.steps = Append(@, "select"),
                          !.monitor = SelectMonitor(Unwrap(e.monitors))]
       IN  IF f.monitor = None
           THEN Return(e, f, Err("No display found."))
           ELSE /\ executors' = Step(e, [f EXCEPT !.pc = "grab"])
                /\ UNCHANGED results
    /\ UNCHANGED <<exec_frame, fs>>

\* let image = monitor.capture_image().map_err(..)?;
StepGrab(e) ==
    /\ BagIn(e, executors)
    /\ e.pc = "grab"
    /\ LET f == [e EXCEPT !.steps = Append(@, "grab")]
       IN  \/ Return(e, f, Err("GrabError"))
           \/ /\ executors' = Step(e, [f EXCEPT !.pc = "save"])
              /\ UNCHANGED results
    /\ UNCHANGED <<exec_frame, fs>>

\* image.save(&path_for_thread).map_err(..)?; Ok(path_for_thread)
StepSave(e) ==
    /\ BagIn(e, executors)
    /\ e.pc = "save"
    /\ LET f == [e EXCEPT !.steps = Append(@, "save")]
       IN  \E save \in SaveOutcomes :
               /\ fs' = IF save \in {"ok", "partial"}
                        THEN fs \cup {Unwrap(e.final_path)} ELSE fs
               /\ Return(e, f, IF save = "ok" THEN Ok(Unwrap(e.final_path))
                               ELSE Err("EncodeError"))
    /\ UNCHANGED exec_frame

ExecutorNext ==
    \/ \E e \in BagToSet(executors) : StepAllocate(e)
    \/ \E e \in BagToSet(executors) : StepEnumerate(e)
    \/ \E e \in BagToSet(executors) : StepSelect(e)
    \/ \E e \in BagToSet(executors) : StepGrab(e)
    \/ \E e \in BagToSet(executors) : StepSave(e)

ExecutorSpec == ExecutorInit /\ [][ExecutorNext]_vars

\* The statements `e` has performed include `step`.
Performed(e, step) == \E i \in 1..Len(e.steps) : e.steps[i] = step

AtOrigin(m) == m.x = 0 /\ m.y = 0

\* C13: an empty display list fails with the no-display error; otherwise the
\* first display whose origin is (0,0) is chosen, and when there is none the
\* first display of the list.
C13_MonitorChoice ==
    \A e \in BagToSet(executors) :
        Performed(e, "select") =>
            LET ms == Unwrap(e.monitors)
            IN  IF ms = <<>>
                THEN /\ e.monitor = None
                     /\ e.pc = "done"
                     /\ BagIn(Err("No display found."), results)
                ELSE /\ IsSome(e.monitor)
                     /\ ~BagIn(Err("No display found."), results)
                     /\ IF \E i \in 1..Len(ms) : AtOrigin(ms[i])
                        THEN \E i \in 1..Len(ms) :
                                 /\ Unwrap(e.monitor) = ms[i]
                                 /\ AtOrigin(ms[i])
                                 /\ \A j \in 1..(i - 1) : ~AtOrigin(ms[j])
                        ELSE Unwrap(e.monitor) = ms[1]

\* C13: the display at the origin is second in the list and is the one chosen.
C13_Witness ==
    \E e \in BagToSet(executors) :
        /\ e.pc = "grab"
        /\ Len(Unwrap(e.monitors)) = 2
        /\ ~AtOrigin(Unwrap(e.monitors)[1])
        /\ Unwrap(e.monitor) = [id |-> 2, x |-> 0, y |-> 0]

\* s is an initial part of t.
IsPrefix(s, t) == Len(s) <= Len(t) /\ SubSeq(t, 1, Len(s)) = s

\* C18: the executor performs (1) enumerate, (2) select, (3) grab,
\* (4) allocate path, (5) write, in this order, and after a failing step
\* performs none of the later ones.
C18_StepOrder ==
    \A e \in BagToSet(executors) :
        IsPrefix(e.steps, <<"enumerate", "select", "grab", "allocate", "save">>)

----------------------------------------------------------------------------
\* Capture results in the application: a step produces a result when an
\* executor resolves with it, and delivers it when CaptureFinished carries it
\* to update.

Produced(r) == CopiesIn(r, results') > CopiesIn(r, results)

Delivered(r) == CopiesIn(r, results') < CopiesIn(r, results)

ResultsInStep == BagToSet(results) \cup BagToSet(results')

\* The executor that resolves in this step.
Resolving == {e \in BagToSet(executors) :
                 CopiesIn(e, executors') < CopiesIn(e, executors)}

\* `sub` occurs in `s` as a run of consecutive elements.
Contains(s, sub) ==
    \E i \in 0..(Len(s) - Len(sub)) : SubSeq(s, i + 1, i + Len(sub)) = sub

\* C14: when a capture fails, the state returns to Idle, the status message
\* contains the failure reason, the last-capture path is unchanged, and that
\* capture has created no file in the target directory.
C14_FailureLeavesNoFile ==
    [][\A r \in ResultsInStep :
           ~r.ok =>
               /\ Produced(r) => fs' = fs
               /\ Delivered(r) =>
                      /\ state' = "Idle"
                      /\ Contains(status_message', r.err)
                      /\ last_capture_path' = last_capture_path]_vars

\* C15: when a capture succeeds, the path reported is the path of the file
\* written, a candidate of the allocator's sequence for the identifier
\* (suffixed only when the zero-suffix name exists); the orchestrator records
\* it as the last capture and the status message contains its file name.
C15_SuccessReportsWrittenPath ==
    [][results' # results =>
           \A r \in ResultsInStep :
               r.ok =>
                   /\ Produced(r) =>
                          \E e \in Resolving :
                              /\ r.path = e.final_path
                              /\ fs' = fs \cup {Unwrap(r.path)}
                              /\ Unwrap(r.path).dir = Parent(e.excel)
                              /\ \E n \in 0..Cardinality(fs) :
                                     /\ Unwrap(r.path).file =
                                            CandidateName(safe_name(e.code), n)
                                     /\ n > 0 =>
                                            [dir |-> Parent(e.excel),
                                             file |-> CandidateName(safe_name(e.code), 0)]
                                                \in fs'
                   /\ Delivered(r) =>
                          /\ last_capture_path' = r.path
                          /\ Unwrap(r.path) \in fs
                          /\ Contains(status_message', Unwrap(r.path).file)]_vars

\* C15: item "T" was captured while T.png existed; T_1.png is on disk, is
\* the last capture and is named in the status message.
C15_Witness ==
    /\ [dir |-> "A", file |-> <<"T", ".", "p", "n", "g">>] \in fs
    /\ last_capture_path =
           Some([dir |-> "A", file |-> <<"T", "_", "1", ".", "p", "n", "g">>])
    /\ Unwrap(last_capture_path) \in fs
    /\ status_message =
           <<"File saved: ", "\"", "T", "_", "1", ".", "p", "n", "g", "\"">>
    /\ IsSome(selected_index)
    /\ Unwrap(selected_index) < Len(items)
    /\ items[Unwrap(selected_index) + 1].code = <<"T">>

\* C16: no successful capture overwrites a file: the path it writes does not
\* exist at the moment of the write.
C16_NoOverwrite ==
    [][\A r \in ResultsInStep :
           (r.ok /\ Produced(r)) => Unwrap(r.path) \notin fs]_vars

----------------------------------------------------------------------------
\* C17: the executor is invoked only on the delay-elapsed event of a start,
\* the restore command is emitted only on a capture-complete event, and no
\* executor is invoked while the state is Idle.
C17_ExecutorOnlyWhileWaiting ==
    [][/\ BagCardinality(executors') > BagCardinality(executors) =>
              /\ ticks' = ticks - 1
              /\ state = "Waiting"
       /\ restored' > restored => \E r \in BagToSet(results) : Delivered(r)]_vars

\* C19: the state starts Idle and changes only from Idle to Waiting on a
\* start request and from Waiting to Idle on capture-complete; every other
\* message leaves it unchanged.
C19_StateChangesOnlyAtStartAndFinish ==
    /\ state = "Idle"
    /\ [][state' # state =>
              \/ /\ state = "Idle"
                 /\ state' = "Waiting"
                 /\ StartRequest
              \/ /\ state = "Waiting"
                 /\ state' = "Idle"
                 /\ \E r \in BagToSet(results) : DeliverCaptureFinished(r)]_vars

\* C19: one capture has gone from start to capture-complete, a second one
\* was started, and a key that is not the trigger has left the state Waiting.
C19_Witness ==
    /\ restored = 1
    /\ minimized = 2
    /\ state = "Waiting"
    /\ last_key = Some("Other")

\* C20: whenever an item is selected its index is below the number of items,
\* also after another file was loaded, so the lookup of TickCapture never
\* goes out of bounds.
C20_SelectedIndexInBounds ==
    /\ IsSome(selected_index) => Unwrap(selected_index) < Len(items)
    /\ ~panicked

====
